---- MODULE Spec2Model ----
(***************************************************************************)
(* Model of gau2grid/c_util_generator.py.                                  *)
(*                                                                         *)
(* The file holds code generators.  Each generator drives a code-emission  *)
(* context cg (start_c_block / close_c_block / write / blankline) and the  *)
(* text it emits is a C/C++ function.  Two layers are modelled:            *)
(*   - the generators themselves, as the sequence of cg calls they make    *)
(*     (SpecGen);                                                          *)
(*   - the emitted functions, executed statement by statement:             *)
(*     gg_naive_transpose and gg_fast_transpose (SpecTranspose),           *)
(*     block_copy (SpecCopy) and the pybind11 wrapper (SpecWrapper).       *)
(*                                                                         *)
(* size_t values are modelled as naturals: a buffer of n*m doubles that    *)
(* exists has n*m*8 below 2^64, so no index expression of the kernels can  *)
(* wrap for m >= 1, and for m = 0 (or n = 0) no index is computed at all.  *)
(*                                                                         *)
(* The wrapper's array arguments belong to its caller and do not change    *)
(* during the call.  A dimension of an array is drawn when the wrapper     *)
(* first reads it and is kept from then on (shape0, shape1); a dimension   *)
(* the wrapper never read is Unread.  The arrays have the ranks that the   *)
(* unchecked<1>() / unchecked<2>() lines of the wrapper expect.            *)
(***************************************************************************)
EXTENDS Integers, Sequences, FiniteSets, TLC

(* ------------------------------ bounds -------------------------------- *)
\* largest matrix dimension n, m given to a kernel
MaxDim == 3
\* largest tile size (inner_block) given to fast_transpose
MaxTile == 3
\* largest extra row padding of a stride over the row length (block_copy)
MaxPad == 2
\* largest number of derivative tags returned by utility.get_deriv_indices
MaxTags == 2
\* largest number of generator calls made on one emission context
MaxCalls == 2
\* largest max_L a wrapper is generated for
MaxOrder == 2
\* the wrapper is called with L from -NegOrder up to max_L + 1
NegOrder == 3

VARIABLES
    \* ---- emitted transpose / copy kernels: arguments and locals ----
    kernel,     \* the emitted function being executed
    pc,         \* position inside it
    n, m,       \* size_t n, size_t m
    input,      \* const double* input   (function 0..size-1 -> value)
    output,     \* double* output
    inner_block,\* the generator's tile size, a literal of the emitted text
    tmp,        \* double tmp[inner_block * inner_block]
    nblocks, mblocks, nb, mb, nstart, nremain, mstart, mremain,
    l, k, start,
    i, j,
    is, os, trans, out_shift, inp_shift,
    \* ---- the caller of the kernels ----
    X,          \* the buffer first given to the kernels
    calls,      \* number of kernel calls made so far
    results,    \* results[c]: the output buffer left by call c
    \* ---- the emission context cg and the running generator ----
    stack,      \* cg: the open blocks, innermost last
    data,       \* cg: the lines emitted so far
    error,      \* cg: close_c_block was called with no block open
    gen,        \* the generator running ("none" between generator calls)
    ops,        \* the cg calls the running generator has still to make
    base,       \* depth of the stack when the running generator was called
    mark,       \* number of lines emitted when the running generator was called
    gcalls,     \* number of generator calls made on this context
    \* ---- generation parameters of pybind11_func ----
    deriv_indices, \* utility.get_deriv_indices(grad)
    max_L,
    \* ---- the emitted wrapper: arguments, locals, and what it did ----
    prog,       \* the statements of the emitted wrapper, in emitted order
    wpc,        \* index in prog of the next statement (0: not called)
    L, spherical,
    shape0,     \* shape0[a]: arr_a.shape(0) as read by the wrapper, or Unread
    shape1,     \* shape1[a]: arr_a.shape(1) as read by the wrapper, or Unread
    nsize,
    thrown,     \* the exception that ended the call, or "none"
    kernel_calls, \* number of calls of the opaque kernel
    kernel_args   \* the arguments of the last call of the opaque kernel

kernelVars == <<kernel, pc, n, m, input, output, inner_block, tmp,
                nblocks, mblocks, nb, mb, nstart, nremain, mstart, mremain,
                l, k, start, i, j, is, os, trans, out_shift, inp_shift,
                X, calls, results>>

genVars == <<stack, data, error, gen, ops, base, mark, gcalls>>

paramVars == <<deriv_indices, max_L>>

wrapVars == <<prog, wpc, L, spherical, shape0, shape1, nsize, thrown,
              kernel_calls, kernel_args>>

vars == <<kernelVars, genVars, paramVars, wrapVars>>

(* --------- values of the variables a specification does not use -------- *)
KernelUnused ==
    /\ kernel = "none" /\ pc = "idle"
    /\ n = 0 /\ m = 0 /\ input = <<>> /\ output = <<>>
    /\ inner_block = 0 /\ tmp = <<>>
    /\ nblocks = 0 /\ mblocks = 0 /\ nb = 0 /\ mb = 0
    /\ nstart = 0 /\ nremain = 0 /\ mstart = 0 /\ mremain = 0
    /\ l = 0 /\ k = 0 /\ start = 0 /\ i = 0 /\ j = 0
    /\ is = 0 /\ os = 0 /\ trans = 0 /\ out_shift = 0 /\ inp_shift = 0
    /\ X = <<>> /\ calls = 0 /\ results = <<>>

GenUnused ==
    /\ stack = <<>> /\ data = <<>> /\ error = FALSE
    /\ gen = "none" /\ ops = <<>> /\ base = 0 /\ mark = 0 /\ gcalls = 0

ParamUnused ==
    /\ deriv_indices = <<>> /\ max_L = 0

WrapUnused ==
    /\ prog = <<>> /\ wpc = 0 /\ L = 0 /\ spherical = FALSE
    /\ shape0 = <<>> /\ shape1 = <<>> /\ nsize = 0
    /\ thrown = <<>> /\ kernel_calls = 0 /\ kernel_args = <<>>

(* ------------------------------ memory -------------------------------- *)
\* content of a double that was never written (stack or heap garbage)
Uninit == 0 - 1

\* a buffer of size doubles, none of them written yet
Fresh(size) == [p \in 0..(size - 1) |-> Uninit]

\* buf[idx]; an index outside the buffer reads garbage
Load(buf, idx) == IF idx \in DOMAIN buf THEN buf[idx] ELSE Uninit

\* buf[idx] = v; a store outside the buffer does not change the buffer
Store(buf, idx, v) == IF idx \in DOMAIN buf THEN [buf EXCEPT ![idx] = v] ELSE buf

(* ------------------- gg_naive_transpose (emitted) --------------------- *)
\* output[j * n + i] = input[i * m + j] : the index written
NaiveDst(nn, mm, ii, jj) == jj * nn + ii

\* output[j * n + i] = input[i * m + j] : the index read
NaiveSrc(nn, mm, ii, jj) == ii * mm + jj

\* for (size_t i = 0; i < n; i++)
NaiveForI ==
    /\ UNCHANGED <<genVars, paramVars, wrapVars>>
    /\ kernel = "naive" /\ pc = "for_i"
    /\ IF i < n
         THEN /\ j' = 0
              /\ pc' = "for_j"
         ELSE /\ pc' = "return"
              /\ UNCHANGED j
    /\ UNCHANGED <<kernel, n, m, input, output, inner_block, tmp, nblocks, mblocks,
                   nb, mb, nstart, nremain, mstart, mremain, l, k, start, i,
                   is, os, trans, out_shift, inp_shift, X, calls, results>>

\* for (size_t j = 0; j < m; j++) output[j * n + i] = input[i * m + j]
NaiveForJ ==
    /\ UNCHANGED <<genVars, paramVars, wrapVars>>
    /\ kernel = "naive" /\ pc = "for_j"
    /\ IF j < m
         THEN /\ output' = Store(output, NaiveDst(n, m, i, j),
                                 Load(input, NaiveSrc(n, m, i, j)))
              /\ j' = j + 1
              /\ UNCHANGED <<i, pc>>
         ELSE /\ i' = i + 1
              /\ pc' = "for_i"
              /\ UNCHANGED <<j, output>>
    /\ UNCHANGED <<kernel, n, m, input, inner_block, tmp, nblocks, mblocks,
                   nb, mb, nstart, nremain, mstart, mremain, l, k, start,
                   is, os, trans, out_shift, inp_shift, X, calls, results>>

(* -------------------- gg_fast_transpose (emitted) --------------------- *)
\* size_t nblocks = n / t; nblocks += (n % t) ? 1 : 0
Blocks(len, t) == (len \div t) + (IF len % t # 0 THEN 1 ELSE 0)

\* (a tile that is never clamped at the matrix edge)
RemainUnclamped(len, st, t) == t

\* size_t nremain = ((nstart + t) > n) ? (n - nstart) : t
Remain(len, st, t) == IF (st + t) > len THEN len - st ELSE t

\* const size_t start = (nstart + l) * m + mstart
GatherStart(ns, ll, mm, ms) == (ns + ll) * mm + ms

\* (the staging tile stored row by row: tmp[l * t + k], not pre-transposed)
GatherTmpRowMajor(kk, ll, t) == ll * t + kk

\* tmp[k * t + l] = input[start + k] : the staging index written
GatherTmp(kk, ll, t) == kk * t + ll

\* (the output row stride taken to be m instead of n)
ScatterStartStrideM(ms, kk, nn, ns) == (ms + kk) * m + ns

\* const size_t start = (mstart + k) * n + nstart
ScatterStart(ms, kk, nn, ns) == (ms + kk) * nn + ns

\* output[start + l] = tmp[k * t + l] : the staging index read
ScatterTmp(kk, ll, t) == kk * t + ll

\* size_t nblocks = ...; size_t mblocks = ...; nb = 0
FastSizing ==
    /\ UNCHANGED <<genVars, paramVars, wrapVars>>
    /\ kernel = "fast" /\ pc = "sizing"
    /\ nblocks' = Blocks(n, inner_block)
    /\ mblocks' = Blocks(m, inner_block)
    /\ nb' = 0
    /\ pc' = "for_nb"
    /\ UNCHANGED <<kernel, n, m, input, output, inner_block, tmp,
                   mb, nstart, nremain, mstart, mremain, l, k, start, i, j,
                   is, os, trans, out_shift, inp_shift, X, calls, results>>

\* for (size_t nb = 0; nb < nblocks; nb++) { nstart = ...; nremain = ...
FastForNb ==
    /\ UNCHANGED <<genVars, paramVars, wrapVars>>
    /\ kernel = "fast" /\ pc = "for_nb"
    /\ IF nb < nblocks
         THEN /\ nstart' = nb * inner_block
              /\ nremain' = Remain(n, nb * inner_block, inner_block)
              /\ mb' = 0
              /\ pc' = "for_mb"
         ELSE /\ pc' = "return"
              /\ UNCHANGED <<nstart, nremain, mb>>
    /\ UNCHANGED <<kernel, n, m, input, output, inner_block, tmp, nblocks, mblocks,
                   nb, mstart, mremain, l, k, start, i, j,
                   is, os, trans, out_shift, inp_shift, X, calls, results>>

\* for (size_t mb = 0; mb < mblocks; mb++) { mstart = ...; mremain = ...
FastForMb ==
    /\ UNCHANGED <<genVars, paramVars, wrapVars>>
    /\ kernel = "fast" /\ pc = "for_mb"
    /\ IF mb < mblocks
         THEN /\ mstart' = mb * inner_block
              /\ mremain' = Remain(m, mb * inner_block, inner_block)
              /\ l' = 0
              /\ pc' = "gather_l"
              /\ UNCHANGED nb
         ELSE /\ nb' = nb + 1
              /\ pc' = "for_nb"
              /\ UNCHANGED <<mstart, mremain, l>>
    /\ UNCHANGED <<kernel, n, m, input, output, inner_block, tmp, nblocks, mblocks,
                   mb, nstart, nremain, k, start, i, j,
                   is, os, trans, out_shift, inp_shift, X, calls, results>>

\* for (size_t l = 0; l < nremain; l++) { start = (nstart + l) * m + mstart
FastGatherL ==
    /\ UNCHANGED <<genVars, paramVars, wrapVars>>
    /\ kernel = "fast" /\ pc = "gather_l"
    /\ IF l < nremain
         THEN /\ start' = GatherStart(nstart, l, m, mstart)
              /\ k' = 0
              /\ pc' = "gather_k"
         ELSE /\ k' = 0
              /\ pc' = "scatter_k"
              /\ UNCHANGED start
    /\ UNCHANGED <<kernel, n, m, input, output, inner_block, tmp, nblocks, mblocks,
                   nb, mb, nstart, nremain, mstart, mremain, l, i, j,
                   is, os, trans, out_shift, inp_shift, X, calls, results>>

\* for (size_t k = 0; k < mremain; k++) tmp[k * t + l] = input[start + k]
FastGatherK ==
    /\ UNCHANGED <<genVars, paramVars, wrapVars>>
    /\ kernel = "fast" /\ pc = "gather_k"
    /\ IF k < mremain
         THEN /\ tmp' = Store(tmp, GatherTmp(k, l, inner_block), Load(input, start + k))
              /\ k' = k + 1
              /\ UNCHANGED <<l, pc>>
         ELSE /\ l' = l + 1
              /\ pc' = "gather_l"
              /\ UNCHANGED <<k, tmp>>
    /\ UNCHANGED <<kernel, n, m, input, output, inner_block, nblocks, mblocks,
                   nb, mb, nstart, nremain, mstart, mremain, start, i, j,
                   is, os, trans, out_shift, inp_shift, X, calls, results>>

\* for (size_t k = 0; k < mremain; k++) { start = (mstart + k) * n + nstart
FastScatterK ==
    /\ UNCHANGED <<genVars, paramVars, wrapVars>>
    /\ kernel = "fast" /\ pc = "scatter_k"
    /\ IF k < mremain
         THEN /\ start' = ScatterStart(mstart, k, n, nstart)
              /\ l' = 0
              /\ pc' = "scatter_l"
              /\ UNCHANGED mb
         ELSE /\ mb' = mb + 1
              /\ pc' = "for_mb"
              /\ UNCHANGED <<start, l>>
    /\ UNCHANGED <<kernel, n, m, input, output, inner_block, tmp, nblocks, mblocks,
                   nb, nstart, nremain, mstart, mremain, k, i, j,
                   is, os, trans, out_shift, inp_shift, X, calls, results>>

\* for (size_t l = 0; l < nremain; l++) output[start + l] = tmp[k * t + l]
FastScatterL ==
    /\ UNCHANGED <<genVars, paramVars, wrapVars>>
    /\ kernel = "fast" /\ pc = "scatter_l"
    /\ IF l < nremain
         THEN /\ output' = Store(output, start + l,
                                 Load(tmp, ScatterTmp(k, l, inner_block)))
              /\ l' = l + 1
              /\ UNCHANGED <<k, pc>>
         ELSE /\ k' = k + 1
              /\ pc' = "scatter_k"
              /\ UNCHANGED <<l, output>>
    /\ UNCHANGED <<kernel, n, m, input, inner_block, tmp, nblocks, mblocks,
                   nb, mb, nstart, nremain, mstart, mremain, start, i, j,
                   is, os, trans, out_shift, inp_shift, X, calls, results>>

(* ------------------- the caller of the transposes --------------------- *)
\* The caller transposes X (n x m) with each kernel, then transposes each
\* kernel's own result back with dimensions (m, n):
\*   call 1: naive(n, m, X)            call 2: fast(n, m, X)
\*   call 3: naive(m, n, results[1])   call 4: fast(m, n, results[2])
CallKernel(c) == IF c \in {1, 3} THEN "naive" ELSE "fast"

CallRows(c) == IF c \in {1, 2} THEN X.n ELSE X.m

CallCols(c) == IF c \in {1, 2} THEN X.m ELSE X.n

CallInput(c) == IF c \in {1, 2} THEN X.data ELSE results[c - 2]

\* gg_naive_transpose(n, m, input, output) / gg_fast_transpose(n, m, input, output)
TransposeCall ==
    /\ UNCHANGED <<genVars, paramVars, wrapVars>>
    /\ pc = "idle" /\ calls < 4
    /\ calls' = calls + 1
    /\ kernel' = CallKernel(calls + 1)
    /\ n' = CallRows(calls + 1)
    /\ m' = CallCols(calls + 1)
    /\ input' = CallInput(calls + 1)
    /\ output' = Fresh(X.n * X.m)
    /\ tmp' = Fresh(inner_block * inner_block)
    /\ i' = 0
    /\ pc' = IF CallKernel(calls + 1) = "naive" THEN "for_i" ELSE "sizing"
    /\ UNCHANGED <<inner_block, nblocks, mblocks, nb, mb, nstart, nremain, mstart,
                   mremain, l, k, start, j, is, os, trans, out_shift, inp_shift,
                   X, results>>

\* the kernel returns; the caller keeps the output buffer
TransposeReturn ==
    /\ UNCHANGED <<genVars, paramVars, wrapVars>>
    /\ kernel \in {"naive", "fast"} /\ pc = "return"
    /\ results' = Append(results, output)
    /\ pc' = "idle"
    /\ UNCHANGED <<kernel, n, m, input, output, inner_block, tmp, nblocks, mblocks,
                   nb, mb, nstart, nremain, mstart, mremain, l, k, start, i, j,
                   is, os, trans, out_shift, inp_shift, X, calls>>

\* an n x m matrix whose elements are pairwise different
Labelled(nn, mm) == [n |-> nn, m |-> mm, data |-> [p \in 0..(nn * mm - 1) |-> p + 1]]

InitTranspose ==
    /\ \E nn \in 0..MaxDim, mm \in 0..MaxDim : X = Labelled(nn, mm)
    /\ inner_block \in 1..MaxTile
    /\ kernel = "none" /\ pc = "idle"
    /\ n = 0 /\ m = 0 /\ input = <<>> /\ output = <<>> /\ tmp = <<>>
    /\ nblocks = 0 /\ mblocks = 0 /\ nb = 0 /\ mb = 0
    /\ nstart = 0 /\ nremain = 0 /\ mstart = 0 /\ mremain = 0
    /\ l = 0 /\ k = 0 /\ start = 0 /\ i = 0 /\ j = 0
    /\ is = 0 /\ os = 0 /\ trans = 0 /\ out_shift = 0 /\ inp_shift = 0
    /\ calls = 0 /\ results = <<>>
    /\ GenUnused /\ ParamUnused /\ WrapUnused

NextTranspose ==
    \/ TransposeCall
    \/ NaiveForI
    \/ NaiveForJ
    \/ FastSizing
    \/ FastForNb
    \/ FastForMb
    \/ FastGatherL
    \/ FastGatherK
    \/ FastScatterK
    \/ FastScatterL
    \/ TransposeReturn

SpecTranspose == InitTranspose /\ [][NextTranspose]_vars

(* --------------------- claims on the transposes ----------------------- *)
\* C1: once both kernels have transposed the same n x m buffer X, the output
\* left by gg_fast_transpose equals the output left by gg_naive_transpose
\* element by element, and that output holds output[j*n + i] = input[i*m + j]
\* for all i < n, j < m, whatever the tile size.
C1_FastEqualsNaive ==
    Len(results) >= 2 =>
        /\ results[2] = results[1]
        /\ \A ii \in 0..(X.n - 1), jj \in 0..(X.m - 1) :
               results[1][jj * X.n + ii] = X.data[ii * X.m + jj]

\* a 3 x 2 matrix and tile size 2: n is no multiple of the tile size
C1_Witness ==
    /\ Len(results) >= 2
    /\ X.n = 3 /\ X.m = 2 /\ inner_block = 2

\* C7: transposing X with dimensions (n, m) and the result with dimensions
\* (m, n) gives back X, with the naive kernel (calls 1 and 3) and with the
\* fast kernel (calls 2 and 4).
C7_Involution ==
    /\ Len(results) >= 3 => results[3] = X.data
    /\ Len(results) >= 4 => results[4] = X.data

\* both round trips done on a 2 x 3 matrix
C7_Witness ==
    /\ Len(results) = 4
    /\ X.n = 2 /\ X.m = 3 /\ inner_block = 2

\* the fast kernel is inside the nb loop body (nremain is set)
InNbBody == pc \in {"for_mb", "gather_l", "gather_k", "scatter_k", "scatter_l"}

\* the fast kernel is inside the mb loop body (mremain is set)
InMbBody == pc \in {"gather_l", "gather_k", "scatter_k", "scatter_l"}

\* the fast kernel is about to execute tmp[k*t + l] = input[start + k]
AtGather == pc = "gather_k" /\ k < mremain

\* the fast kernel is about to execute output[start + l] = tmp[k*t + l]
AtScatter == pc = "scatter_l" /\ l < nremain

\* C9: in gg_fast_transpose every access stays in bounds: nremain and mremain
\* are in 1..t inside the tile loops, every staging index is below t*t, every
\* input index read is (nstart + l)*m + mstart + k and below n*m, every output
\* index written is (mstart + k)*n + nstart + l and below n*m; with n = 0 or
\* m = 0 no element is read and none is written.
C9_InBounds ==
    kernel = "fast" =>
        /\ InNbBody => nremain \in 1..inner_block
        /\ InMbBody => mremain \in 1..inner_block
        /\ AtGather =>
              /\ k * inner_block + l < inner_block * inner_block
              /\ GatherTmp(k, l, inner_block) = k * inner_block + l
              /\ start + k = (nstart + l) * m + mstart + k
              /\ start + k < n * m
              /\ nstart + l < n /\ mstart + k < m
        /\ AtScatter =>
              /\ k * inner_block + l < inner_block * inner_block
              /\ ScatterTmp(k, l, inner_block) = k * inner_block + l
              /\ start + l = (mstart + k) * n + nstart + l
              /\ start + l < n * m
              /\ nstart + l < n /\ mstart + k < m
        /\ (n = 0 \/ m = 0) =>
              /\ ~AtGather /\ ~AtScatter
              /\ output = Fresh(0)

\* the corner tile of a 3 x 3 matrix with tile size 2: a 1 x 1 remainder
C9_Witness ==
    /\ kernel = "fast" /\ AtGather
    /\ n = 3 /\ m = 3 /\ inner_block = 2
    /\ nb = 1 /\ mb = 1 /\ nremain = 1 /\ mremain = 1

(* ------------------------ block_copy (emitted) ------------------------ *)
\* (the destination taken to be densely packed: its stride ignored)
OutShiftDense(ii, stride) == ii * m

\* const size_t out_shift = i * os
OutShift(ii, stride) == ii * stride

\* const size_t inp_shift = i * is
InpShift(ii, stride) == ii * stride

\* for (size_t i = 0; i < n; i++) { out_shift = i * os; inp_shift = i * is
CopyForI ==
    /\ UNCHANGED <<genVars, paramVars, wrapVars>>
    /\ kernel = "block_copy" /\ pc = "for_i"
    /\ IF i < n
         THEN /\ out_shift' = OutShift(i, os)
              /\ inp_shift' = InpShift(i, is)
              /\ j' = 0
              /\ pc' = "for_j"
         ELSE /\ pc' = "return"
              /\ UNCHANGED <<out_shift, inp_shift, j>>
    /\ UNCHANGED <<kernel, n, m, input, output, inner_block, tmp, nblocks, mblocks,
                   nb, mb, nstart, nremain, mstart, mremain, l, k, start, i,
                   is, os, trans, X, calls, results>>

\* for (size_t j = 0; j < m; j++) output[out_shift + j] = input[inp_shift + j]
CopyForJ ==
    /\ UNCHANGED <<genVars, paramVars, wrapVars>>
    /\ kernel = "block_copy" /\ pc = "for_j"
    /\ IF j < m
         THEN /\ output' = Store(output, out_shift + j, Load(input, inp_shift + j))
              /\ j' = j + 1
              /\ UNCHANGED <<i, pc>>
         ELSE /\ i' = i + 1
              /\ pc' = "for_i"
              /\ UNCHANGED <<j, output>>
    /\ UNCHANGED <<kernel, n, m, input, inner_block, tmp, nblocks, mblocks,
                   nb, mb, nstart, nremain, mstart, mremain, l, k, start,
                   is, os, trans, out_shift, inp_shift, X, calls, results>>

\* block_copy returns; the caller keeps the destination
CopyReturn ==
    /\ UNCHANGED <<genVars, paramVars, wrapVars>>
    /\ kernel = "block_copy" /\ pc = "return"
    /\ results' = Append(results, output)
    /\ pc' = "idle"
    /\ UNCHANGED <<kernel, n, m, input, output, inner_block, tmp, nblocks, mblocks,
                   nb, mb, nstart, nremain, mstart, mremain, l, k, start, i, j,
                   is, os, trans, out_shift, inp_shift, X, calls>>

\* block_copy(n, m, input, is, output, os, trans): an n x m block held with row
\* stride is >= m, a destination with row stride os >= m, any trans flag
InitCopy ==
    /\ n \in 0..MaxDim /\ m \in 0..MaxDim
    /\ is \in m..(m + MaxPad)
    /\ os \in m..(m + MaxPad)
    /\ trans \in {0, 1}
    /\ X = Labelled(n, is)
    /\ input = X.data
    /\ output = Fresh(n * os)
    /\ kernel = "block_copy" /\ pc = "for_i"
    /\ i = 0 /\ j = 0 /\ out_shift = 0 /\ inp_shift = 0
    /\ inner_block = 0 /\ tmp = <<>>
    /\ nblocks = 0 /\ mblocks = 0 /\ nb = 0 /\ mb = 0
    /\ nstart = 0 /\ nremain = 0 /\ mstart = 0 /\ mremain = 0
    /\ l = 0 /\ k = 0 /\ start = 0
    /\ calls = 1 /\ results = <<>>
    /\ GenUnused /\ ParamUnused /\ WrapUnused

NextCopy ==
    \/ CopyForI
    \/ CopyForJ
    \/ CopyReturn

SpecCopy == InitCopy /\ [][NextCopy]_vars

\* C5: after block_copy of a densely packed n x m input (is = m) into a
\* destination of stride os >= m, reading the destination at i*os + j gives
\* input[i*m + j] for all i < n, j < m.
C5_CopyRoundTrip ==
    (kernel = "block_copy" /\ Len(results) = 1 /\ is = m /\ os >= m) =>
        \A ii \in 0..(n - 1), jj \in 0..(m - 1) :
            Load(results[1], ii * os + jj) = input[ii * m + jj]

\* a dense 3 x 2 block copied into a destination of stride 4
C5_Witness ==
    /\ kernel = "block_copy" /\ Len(results) = 1
    /\ n = 3 /\ m = 2 /\ is = 2 /\ os = 4

(* ------------------- the emission context cg (spec 4.1) ---------------- *)
\* a piece of emitted text: a Python format string and its % arguments
P(fmt, args) == [fmt |-> fmt, args |-> args]

\* a piece of literal text
Lit(str) == P(str, <<>>)

\* the concatenation of the sequences of a sequence
RECURSIVE Flatten(_)
Flatten(ss) == IF ss = <<>> THEN <<>> ELSE Head(ss) \o Flatten(Tail(ss))

\* cg.start_c_block(text)
S(text) == [op |-> "start_c_block", text |-> text, endl |-> ""]

\* cg.close_c_block()
C == [op |-> "close_c_block", text |-> <<>>, endl |-> ""]

\* cg.write(text)
W(text) == [op |-> "write", text |-> text, endl |-> ";"]

\* cg.write(text, endl="")
WE(text) == [op |-> "write", text |-> text, endl |-> ""]

\* cg.blankline()
B == [op |-> "blankline", text |-> <<>>, endl |-> ""]

\* an emitted line: its indentation, its text, its terminator
Line(indent, text, endl) == [indent |-> indent, text |-> text, endl |-> endl]

(* --------------------------- pybind11_func ---------------------------- *)
\* str.upper() on a derivative tag
Upper(cart) ==
    CASE cart = "x" -> "X"
      [] cart = "y" -> "Y"
      [] cart = "z" -> "Z"
      [] OTHER -> cart

\* sig = """void %s(int L, ..., py::array_t<double> arr_out""" % name
SigHead(name) ==
    P("void %s(int L, py::array_t<double> arr_xyz, py::array_t<double> arr_coeffs, py::array_t<double> arr_exponents, py::array_t<double> arr_center, bool spherical, py::array_t<double> arr_out", <<name>>)

\* sig += ", py::array_t<double> arr_%s_out" % cart
SigParam(cart) == P(", py::array_t<double> arr_%s_out", <<cart>>)

\* the signature: head, one parameter per tag, ")"
Sig(name, T) == <<SigHead(name)>> \o [t \in 1..Len(T) |-> SigParam(T[t])] \o <<Lit(")")>>

\* cg.write('auto out = arr_out.mutable_unchecked<2>()')
UnpackOut == W(<<Lit("auto out = arr_out.mutable_unchecked<2>()")>>)

\* cg.write("auto out_%s = arr_%s_out.mutable_unchecked<2>()" % (cart, cart))
Unpack(cart) == W(<<P("auto out_%s = arr_%s_out.mutable_unchecked<2>()", <<cart, cart>>)>>)

\* if (L > max_L) throw std::invalid_argument(...)
CheckOrder(maxL) ==
    << S(<<P("if (L > %d)", <<maxL>>)>>),
       W(<<P("    throw std::invalid_argument(Exceeded compiled angular momentum of %d.)", <<maxL>>)>>),
       C >>

\* if (arr_xyz.shape(0) != 3) throw std::length_error(...)
CheckXYZ ==
    << S(<<Lit("if (arr_xyz.shape(0) != 3)")>>),
       W(<<Lit("    throw std::length_error(Length of XYZ array must be (3, n).)")>>),
       C >>

\* if (coeffs.shape(0) != exponents.shape(0)) throw std::length_error(...)
CheckCoeffs ==
    << S(<<Lit("if (coeffs.shape(0) != exponents.shape(0))")>>),
       W(<<Lit("    throw std::length_error(Length of coefficients and exponents must match.)")>>),
       C >>

\* if (center.shape(0) != 3) throw std::length_error(...)
CheckCenter ==
    << S(<<Lit("if (center.shape(0) != 3)")>>),
       W(<<Lit("    throw std::length_error(Length of center vector must be 3 (X, Y, Z).)")>>),
       C >>

\* size_t nsize; if (spherical) { nsize = 2 * L + 1 } else { nsize = ... }
ComputeNsize ==
    << W(<<Lit("size_t nsize")>>),
       S(<<Lit("if (spherical)")>>),
       W(<<Lit("    nsize = 2 * L + 1")>>),
       WE(<<Lit("} else {")>>),
       W(<<Lit("    nsize = ((L + 2) * (L + 1)) / 2")>>),
       C >>

\* if (out.shape(0) != nsize) throw std::length_error(...)
RowCheckOut ==
    << S(<<Lit("if (out.shape(0) != nsize)")>>),
       W(<<Lit("    throw std::length_error(Size of the output array does not match the angular momentum.)")>>),
       C >>

\* (a row-count check whose block is never closed)
RowCheckUnclosed(cart) ==
    << S(<<P("if (out_%s.shape(0) != nsize)", <<cart>>)>>),
       W(<<P("    throw std::length_error(Size of the output %s array does not match the angular momentum.)", <<Upper(cart)>>)>>) >>

\* if (out_<cart>.shape(0) != nsize) throw std::length_error(...)
RowCheck(cart) ==
    << S(<<P("if (out_%s.shape(0) != nsize)", <<cart>>)>>),
       W(<<P("    throw std::length_error(Size of the output %s array does not match the angular momentum.)", <<Upper(cart)>>)>>),
       C >>

\* if (out.shape(1) != arr_xyz.shape(1)) throw std::length_error(...)
ColCheckOut ==
    << S(<<Lit("if (out.shape(1) != arr_xyz.shape(1))")>>),
       W(<<Lit("    throw std::length_error(Size of the output array and XYZ array must be the same.)")>>),
       C >>

\* if (out_<cart>.shape(1) != arr_xyz.shape(1)) throw std::length_error(...)
ColCheck(cart) ==
    << S(<<P("if (out_%s.shape(1) != arr_xyz.shape(1))", <<cart>>)>>),
       W(<<P("    throw std::length_error(Size of the output %s array and XYZ array must be the same.)", <<Upper(cart)>>)>>),
       C >>

\* call_func += ", out_%s.mutable_data(0, 0)" % cart
CallArg(cart) == P(", out_%s.mutable_data(0, 0)", <<cart>>)

\* (the derivative pointers appended last tag first)
CallArgsReversed(T) == [t \in 1..Len(T) |-> CallArg(T[Len(T) + 1 - t])]

\* for cart in deriv_indices: call_func += ", out_%s.mutable_data(0, 0)" % cart
CallArgs(T) == [t \in 1..Len(T) |-> CallArg(T[t])]

\* call_func = call_name + "(L, xyz.shape(1)" + ... + ")"
CallFunc(call_name, T) ==
    << Lit(call_name), Lit("(L, xyz.shape(1)"),
       Lit(", xyz.data(0, 0), xyz.data(1, 0), xyz.data(2, 0)"),
       Lit(", coeffs.shape(0), coeffs.data(0), exponents.data(0)"),
       Lit(", center.data(0)"),
       Lit(", spherical"),
       Lit(", out.mutable_data(0, 0)") >>
    \o CallArgs(T) \o <<Lit(")")>>

\* (the XYZ check emitted before the order check)
InputChecksXYZFirst(maxL) ==
    << W(<<Lit("// XYZ is of size 3")>>) >>
    \o CheckXYZ
    \o << W(<<Lit("// XYZ is of size 3")>>) >>
    \o CheckOrder(maxL)
    \o << B, W(<<Lit("// Coeff matches exponent shape")>>) >>
    \o CheckCoeffs
    \o << B, W(<<Lit("// Center is of size 3")>>) >>
    \o CheckCenter
    \o << B >>

\* "Run through checks": the checks on L, arr_xyz, coeffs/exponents and center
InputChecks(maxL) ==
    << W(<<Lit("// XYZ is of size 3")>>) >>
    \o CheckOrder(maxL)
    \o << W(<<Lit("// XYZ is of size 3")>>) >>
    \o CheckXYZ
    \o << B, W(<<Lit("// Coeff matches exponent shape")>>) >>
    \o CheckCoeffs
    \o << B, W(<<Lit("// Center is of size 3")>>) >>
    \o CheckCenter
    \o << B >>

\* the row-count check of out, then of each derivative output
RowChecks(T) == RowCheckOut \o Flatten([t \in 1..Len(T) |-> RowCheck(T[t])])

\* (the column-count checks of the derivative outputs left out)
ColChecksOutOnly(T) == ColCheckOut

\* the column-count check of out, then of each derivative output
ColChecks(T) == ColCheckOut \o Flatten([t \in 1..Len(T) |-> ColCheck(T[t])])

\* the cg calls of pybind11_func(cg, name, grad, call_name, max_L), in order,
\* with T = utility.get_deriv_indices(grad)
PybindFuncOps(name, T, call_name, maxL) ==
    << S(Sig(name, T)), B,
       W(<<Lit("// Grab array pointers")>>),
       W(<<Lit("auto xyz = arr_xyz.unchecked<2>()")>>),
       W(<<Lit("auto coeffs = arr_coeffs.unchecked<1>()")>>),
       W(<<Lit("auto exponents = arr_exponents.unchecked<1>()")>>),
       W(<<Lit("auto center = arr_center.unchecked<1>()")>>),
       UnpackOut >>
    \o [t \in 1..Len(T) |-> Unpack(T[t])]
    \o << B >>
    \o InputChecks(maxL)
    \o << W(<<Lit("// Make sure output length matches")>>) >>
    \o ComputeNsize
    \o << B >>
    \o RowChecks(T)
    \o << B, W(<<Lit("// Ensure lengths match")>>) >>
    \o ColChecks(T)
    \o << B, W(<<Lit("// Call the GG helper function")>>),
          W(CallFunc(call_name, T)),
          C >>

(* ------------------------- pybind11_transpose ------------------------- *)
\* the cg calls of pybind11_transpose(cg, func_name, wrapper_name), in order
PybindTransposeOps(func_name, wrapper_name) ==
    << S(<<P("void %s(py::array_t<double> arr_input", <<wrapper_name>>),
           Lit(", py::array_t<double> arr_output)")>>),
       W(<<Lit("auto input = arr_input.unchecked<2>()")>>),
       W(<<Lit("auto output = arr_output.mutable_unchecked<2>()")>>),
       W(<<Lit("size_t n = input.shape(0)")>>),
       W(<<Lit("size_t m = input.shape(1)")>>),
       B,
       W(<<Lit("// Check shapes")>>),
       S(<<Lit("if (input.shape(0) != output.shape(1))")>>),
       W(<<Lit("    throw std::length_error(Input tranpose shape 0 does not match output transpose shape 1.)")>>),
       C, B,
       S(<<Lit("if (input.shape(1) != output.shape(0))")>>),
       W(<<Lit("    throw std::length_error(Input tranpose shape 1 does not match output transpose shape 0.)")>>),
       C, B,
       W(<<P("%s(n, m, input.data(0, 0), output.mutable_data(0, 0))", <<func_name>>)>>),
       C >>

(* ------------------ naive_transpose (the generator) ------------------- *)
\* the cg calls of naive_transpose(cg), in order
NaiveTransposeOps ==
    << S(<<Lit("void gg_naive_transpose(size_t n, size_t m, const double* __restrict__ input, double* __restrict__ output)")>>),
       S(<<Lit("for (size_t i = 0; i < n; i++)")>>),
       S(<<Lit("for (size_t j = 0; j < m; j++)")>>),
       W(<<Lit("output[j * n + i] = input[i * m + j]")>>),
       C, C, C >>

(* ------------------- fast_transpose (the generator) ------------------- *)
\* the cg calls of fast_transpose(cg, inner_block), in order
FastTransposeOps(t) ==
    << S(<<Lit("void gg_fast_transpose(size_t n, size_t m, const double* __restrict__ input, double* __restrict__ output)")>>),
       B,
       W(<<Lit("// Temps")>>),
       W(<<P("double tmp[%d]  __attribute__((aligned(64)))", <<t * t>>)>>),
       W(<<Lit("// Sizing")>>),
       W(<<P("size_t nblocks = n / %d", <<t>>)>>),
       W(<<P("nblocks += (n %% %d) ? 1 : 0", <<t>>)>>),
       W(<<P("size_t mblocks = m / %d", <<t>>)>>),
       W(<<P("mblocks += (m %% %d) ? 1 : 0", <<t>>)>>),
       W(<<Lit("// Outer blocks")>>),
       S(<<Lit("for (size_t nb = 0; nb < nblocks; nb++)")>>),
       W(<<P("const size_t nstart = nb * %d", <<t>>)>>),
       W(<<P("size_t nremain = ((nstart + %d) > n) ? (n - nstart) : %d", <<t, t>>)>>),
       S(<<Lit("for (size_t mb = 0; mb < mblocks; mb++)")>>),
       W(<<P("const size_t mstart = mb * %d", <<t>>)>>),
       W(<<P("size_t mremain = ((mstart + %d) > m) ? (m - mstart) : %d", <<t, t>>)>>),
       W(<<Lit("// Copy data to inner block")>>),
       S(<<Lit("for (size_t l = 0; l < nremain; l++)")>>),
       W(<<Lit("const size_t start = (nstart + l) * m + mstart")>>),
       S(<<Lit("for (size_t k = 0; k < mremain; k++)")>>),
       W(<<P("tmp[k * %d + l] = input[start + k]", <<t>>)>>),
       C, C,
       W(<<Lit("// Copy data to inner block")>>),
       S(<<Lit("for (size_t k = 0; k < mremain; k++)")>>),
       W(<<Lit("const size_t start = (mstart + k) * n + nstart")>>),
       S(<<Lit("for (size_t l = 0; l < nremain; l++)")>>),
       W(<<P("output[start + l] = tmp[k * %d + l]", <<t>>)>>),
       C, C,
       C, C,
       C >>

(* --------------------- block_copy (the generator) --------------------- *)
\* the cg calls of block_copy(cg), in order
BlockCopyOps ==
    << S(<<Lit("void block_copy(size_t n, size_t m, const double* __restrict__ input, size_t is, double* __restrict__ output, size_t os, const int trans)")>>),
       B,
       S(<<Lit("for (size_t i = 0; i < n; i++)")>>),
       W(<<Lit("const size_t out_shift = i * os")>>),
       W(<<Lit("const size_t inp_shift = i * is")>>),
       B,
       S(<<Lit("for (size_t j = 0; j < m; j++)")>>),
       W(<<Lit("output[out_shift + j] = input[inp_shift + j]")>>),
       C, C, C >>

(* ------------------- running generators on a context ------------------ *)
\* the derivative tags
Tags == {"x", "y", "z"}

\* two orders in which the provider may enumerate the tags
TagOrders == { <<"x", "y", "z">>, <<"z", "y", "x">> }

\* the tag sequences utility.get_deriv_indices may return: the first tags of
\* one of the orders, more of them for a higher derivative order
DerivIndices ==
    { SubSeq(o, 1, len) : o \in TagOrders, len \in 0..(IF MaxTags < 3 THEN MaxTags ELSE 3) }

\* the block the driver has open around the generated functions
DriverBlock == <<Lit("extern C")>>

\* the driver calls the generators at top level or inside its own block
DriverDepths == {0, 1}

\* a generator is called: it will make the cg calls todo
Enter(g, todo) ==
    /\ gen = "none" /\ ~error /\ gcalls < MaxCalls
    /\ gen' = g
    /\ ops' = todo
    /\ base' = Len(stack)
    /\ mark' = Len(data)
    /\ gcalls' = gcalls + 1
    /\ UNCHANGED <<stack, data, error, kernelVars, wrapVars>>

\* pybind11_func(cg, name, grad, call_name, max_L)
GenPybindFunc ==
    \E T \in DerivIndices :
        /\ Enter("pybind11_func", PybindFuncOps("collocation_wrapper", T, "gg_collocation", MaxOrder))
        /\ deriv_indices' = T
        /\ max_L' = MaxOrder

\* pybind11_transpose(cg, func_name, wrapper_name)
GenPybindTranspose ==
    /\ Enter("pybind11_transpose", PybindTransposeOps("gg_fast_transpose", "fast_transpose_wrapper"))
    /\ UNCHANGED paramVars

\* naive_transpose(cg)
GenNaiveTranspose ==
    /\ Enter("naive_transpose", NaiveTransposeOps)
    /\ UNCHANGED paramVars

\* fast_transpose(cg, inner_block)
GenFastTranspose ==
    /\ \E t \in 1..MaxTile : Enter("fast_transpose", FastTransposeOps(t))
    /\ UNCHANGED paramVars

\* block_copy(cg)
GenBlockCopy ==
    /\ Enter("block_copy", BlockCopyOps)
    /\ UNCHANGED paramVars

\* the running generator is about to make the cg call op
Calling(op) == gen # "none" /\ ~error /\ ops # <<>> /\ Head(ops).op = op

\* cg.start_c_block(header): emit the header, push it, indent
StartCBlock ==
    /\ Calling("start_c_block")
    /\ data' = Append(data, Line(Len(stack), Head(ops).text, " {"))
    /\ stack' = Append(stack, Head(ops).text)
    /\ ops' = Tail(ops)
    /\ UNCHANGED <<error, gen, base, mark, gcalls, paramVars, kernelVars, wrapVars>>

\* cg.close_c_block(): dedent, emit the closing brace, pop; an error when no
\* block is open
CloseCBlock ==
    /\ Calling("close_c_block")
    /\ IF stack = <<>>
         THEN /\ error' = TRUE
              /\ UNCHANGED <<stack, data, ops>>
         ELSE /\ stack' = SubSeq(stack, 1, Len(stack) - 1)
              /\ data' = Append(data, Line(Len(stack) - 1, <<Lit("}")>>, ""))
              /\ ops' = Tail(ops)
              /\ UNCHANGED error
    /\ UNCHANGED <<gen, base, mark, gcalls, paramVars, kernelVars, wrapVars>>

\* cg.write(line): emit the line at the current indentation
Write ==
    /\ Calling("write")
    /\ data' = Append(data, Line(Len(stack), Head(ops).text, Head(ops).endl))
    /\ ops' = Tail(ops)
    /\ UNCHANGED <<stack, error, gen, base, mark, gcalls, paramVars, kernelVars, wrapVars>>

\* cg.blankline(): emit an empty line, no indentation
Blankline ==
    /\ Calling("blankline")
    /\ data' = Append(data, Line(0, <<>>, ""))
    /\ ops' = Tail(ops)
    /\ UNCHANGED <<stack, error, gen, base, mark, gcalls, paramVars, kernelVars, wrapVars>>

\* the running generator returns
GenReturn ==
    /\ gen # "none" /\ ~error /\ ops = <<>>
    /\ gen' = "none"
    /\ UNCHANGED <<stack, data, error, ops, base, mark, gcalls, paramVars, kernelVars, wrapVars>>

\* a context in which the driver has d blocks open, no generator called yet
InitGen ==
    /\ \E d \in DriverDepths :
          /\ stack = [q \in 1..d |-> DriverBlock]
          /\ data = [q \in 1..d |-> Line(q - 1, DriverBlock, " {")]
          /\ base = d
    /\ error = FALSE /\ gen = "none" /\ ops = <<>> /\ mark = 0 /\ gcalls = 0
    /\ ParamUnused /\ KernelUnused /\ WrapUnused

NextGen ==
    \/ GenPybindFunc
    \/ GenPybindTranspose
    \/ GenNaiveTranspose
    \/ GenFastTranspose
    \/ GenBlockCopy
    \/ StartCBlock
    \/ CloseCBlock
    \/ Write
    \/ Blankline
    \/ GenReturn

SpecGen == InitGen /\ [][NextGen]_vars

(* ---------------------- claims on the generators ---------------------- *)
\* C8: a generator called on a context of depth d never makes the depth fall
\* below d (it never closes a block it did not open, and never closes an empty
\* stack), and leaves the depth at exactly d when it returns; between generator
\* calls only the driver's own blocks are open, so calls on an empty context
\* end with an empty stack.
C8_Balanced ==
    /\ ~error
    /\ gen # "none" => Len(stack) >= base
    /\ Calling("close_c_block") => Len(stack) > base
    /\ (gen # "none" /\ ops = <<>>) => Len(stack) = base
    /\ gen = "none" =>
          /\ Len(stack) = base
          /\ \A q \in 1..Len(stack) : stack[q] = DriverBlock
          /\ (data = <<>> \/ data[1].text # DriverBlock) => stack = <<>>

\* pybind11_func with two derivative tags has returned, as the second
\* generator called on an initially empty context
C8_Witness ==
    /\ gen = "pybind11_func" /\ ops = <<>> /\ Len(deriv_indices) = 2
    /\ gcalls = 2 /\ base = 0 /\ stack = <<>>

\* the lines emitted by the running generator
Emitted == SubSeq(data, mark + 1, Len(data))

\* the pieces of text, in emitted order, of a sequence of lines
Pieces(lines) == Flatten([q \in 1..Len(lines) |-> lines[q].text])

\* the positions in the sequence of pieces ps of the pieces of format fmt
RECURSIVE Positions(_, _, _)
Positions(ps, fmt, from) ==
    IF from > Len(ps) THEN <<>>
    ELSE (IF ps[from].fmt = fmt THEN <<from>> ELSE <<>>) \o Positions(ps, fmt, from + 1)

\* in ps there is exactly one piece of format primary, the pieces of format
\* perTag carry exactly the tags T, in the order of T, and all of them follow
\* the primary piece
GroupInOrder(ps, primary, perTag, T) ==
    LET first == Positions(ps, primary, 1)
        rest == Positions(ps, perTag, 1)
    IN /\ Len(first) = 1
       /\ Len(rest) = Len(T)
       /\ \A q \in 1..Len(T) : ps[rest[q]].args[1] = T[q] /\ first[1] < rest[q]

\* C6: with T the tags returned by utility.get_deriv_indices, pybind11_func
\* emits the extra parameters of the signature, the unpacking lines, the
\* row-count checks, the column-count checks and the extra arguments of the
\* kernel call each in exactly the order of T, one per tag, after the primary
\* output of the group.
C6_DerivOrder ==
    (gen = "pybind11_func" /\ ops = <<>>) =>
        LET ps == Pieces(Emitted) IN
        /\ GroupInOrder(ps, SigHead("").fmt, SigParam("").fmt, deriv_indices)
        /\ GroupInOrder(ps, "auto out = arr_out.mutable_unchecked<2>()",
                        "auto out_%s = arr_%s_out.mutable_unchecked<2>()", deriv_indices)
        /\ GroupInOrder(ps, "if (out.shape(0) != nsize)",
                        "if (out_%s.shape(0) != nsize)", deriv_indices)
        /\ GroupInOrder(ps, "if (out.shape(1) != arr_xyz.shape(1))",
                        "if (out_%s.shape(1) != arr_xyz.shape(1))", deriv_indices)
        /\ GroupInOrder(ps, ", out.mutable_data(0, 0)",
                        ", out_%s.mutable_data(0, 0)", deriv_indices)

\* pybind11_func has returned for the tags z, y (in that order)
C6_Witness ==
    /\ gen = "pybind11_func" /\ ops = <<>>
    /\ deriv_indices = <<"z", "y">>

(* ------------------ the emitted wrapper, as a program ------------------ *)
\* what an emitted block header or line does when the wrapper runs
StmtKind(o) ==
    IF o.op = "start_c_block"
      THEN CASE o.text[1].fmt = "if (L > %d)" -> "order"
             [] o.text[1].fmt = "if (arr_xyz.shape(0) != 3)" -> "xyz"
             [] o.text[1].fmt = "if (coeffs.shape(0) != exponents.shape(0))" -> "coeffs"
             [] o.text[1].fmt = "if (center.shape(0) != 3)" -> "center"
             [] o.text[1].fmt = "if (spherical)" -> "nsize"
             [] o.text[1].fmt = "if (out.shape(0) != nsize)" -> "rows"
             [] o.text[1].fmt = "if (out_%s.shape(0) != nsize)" -> "rows"
             [] o.text[1].fmt = "if (out.shape(1) != arr_xyz.shape(1))" -> "cols"
             [] o.text[1].fmt = "if (out_%s.shape(1) != arr_xyz.shape(1))" -> "cols"
             [] OTHER -> "none"
    ELSE IF o.op = "write" /\ Len(o.text) >= 2 /\ o.text[2].fmt = "(L, xyz.shape(1)"
      THEN "call"
    ELSE "none"

\* the array a check reads: out for the primary output, the tag for out_<tag>
StmtArray(o) ==
    CASE StmtKind(o) \in {"rows", "cols"} ->
            IF o.text[1].args = <<>> THEN "out" ELSE o.text[1].args[1]
      [] StmtKind(o) = "call" -> "out"
      [] OTHER -> StmtKind(o)

\* the exception thrown by the body of an emitted if block
Exception(body) ==
    IF body.text[1].fmt = "    throw std::invalid_argument(Exceeded compiled angular momentum of %d.)"
      THEN "invalid_argument"
      ELSE "length_error"

\* the output buffers passed to the kernel, in the order of the emitted call
RECURSIVE CallOuts(_)
CallOuts(text) ==
    IF text = <<>> THEN <<>>
    ELSE (CASE Head(text).fmt = ", out.mutable_data(0, 0)" -> <<"out">>
            [] Head(text).fmt = ", out_%s.mutable_data(0, 0)" -> <<Head(text).args[1]>>
            [] OTHER -> <<>>)
         \o CallOuts(Tail(text))

\* the statements of the function emitted by a sequence of cg calls: every
\* if block with its body, and the kernel call, in emitted order
RECURSIVE Compile(_, _)
Compile(todo, from) ==
    IF from > Len(todo) THEN <<>>
    ELSE (IF StmtKind(todo[from]) = "none" THEN <<>>
          ELSE << [kind |-> StmtKind(todo[from]),
                   array |-> StmtArray(todo[from]),
                   limit |-> IF StmtKind(todo[from]) = "order"
                               THEN todo[from].text[1].args[1] ELSE 0,
                   exc |-> IF StmtKind(todo[from]) = "call"
                             THEN "none" ELSE Exception(todo[from + 1]),
                   outs |-> IF StmtKind(todo[from]) = "call"
                              THEN CallOuts(todo[from].text) ELSE <<>>] >>)
         \o Compile(todo, from + 1)

(* ----------------------- C integer conversions ------------------------ *)
\* The modulus of size_t.  size_t is 64 bits wide and TLC's integers are 32
\* bits wide, so the modulus is scaled down; what the wrapper depends on is
\* kept: a negative int converted to size_t is larger than every shape.
SizeMod == 2 ^ 30

\* conversion of an int to size_t
ToSizeT(v) == v % SizeMod

\* (the division by two forgotten)
NsizeCartesianNoHalf(order) == (order + 2) * (order + 1)

\* nsize = 2 * L + 1
NsizeSpherical(order) == 2 * order + 1

\* nsize = ((L + 2) * (L + 1)) / 2   (the product is never negative)
NsizeCartesian(order) == ((order + 2) * (order + 1)) \div 2

(* ----------------------- the wrapper's arguments ----------------------- *)
\* an array dimension the wrapper has not read
Unread == 0 - 1

\* the arrays of a wrapper call
Arrays == {"xyz", "coeffs", "exponents", "center", "out"} \cup Tags

\* first dimensions tried for arr_xyz and arr_center
Dims == {2, 3, 4}

\* lengths tried for arr_coeffs and arr_exponents
Lengths == {3, 4}

\* point counts tried for the second dimension of arr_xyz and of the outputs
Points == {4, 5}

\* row counts tried for the outputs: 0 up to the largest expected row count
Rows == 0..NsizeCartesian(MaxOrder)

\* no exception
NoThrow == [type |-> "none", check |-> <<"none", "none">>]

\* the index after the last statement: the call has ended
End == Len(prog) + 1

\* the wrapper is at a statement of this kind
AtStmt(kind) == wpc \in 1..Len(prog) /\ prog[wpc].kind = kind

\* the if block at wpc throws
Throw ==
    /\ thrown' = [type |-> prog[wpc].exc, check |-> <<prog[wpc].kind, prog[wpc].array>>]
    /\ wpc' = End

\* the if block at wpc is skipped
Pass ==
    /\ wpc' = wpc + 1
    /\ UNCHANGED thrown

\* the value v is what dimension shp[a] holds: the value read before, or any
\* value when the dimension is read for the first time
Reads(shp, a, v) == shp[a] \in {Unread, v}

\* the wrapper is called: wrapper(L, arr_xyz, ..., spherical, arr_out, ...);
\* the unchecked<>() lines take the views of the arrays
WrapperCall ==
    /\ prog # <<>> /\ wpc = 0
    /\ \E order \in (0 - NegOrder)..(max_L + 1) : L' = order
    /\ spherical' \in BOOLEAN
    /\ wpc' = 1
    /\ UNCHANGED <<prog, shape0, shape1, nsize, thrown, kernel_calls, kernel_args,
                   paramVars, genVars, kernelVars>>

\* if (L > max_L) throw std::invalid_argument
ExecCheckOrder ==
    /\ AtStmt("order")
    /\ IF L > prog[wpc].limit THEN Throw ELSE Pass
    /\ UNCHANGED <<prog, L, spherical, shape0, shape1, nsize, kernel_calls, kernel_args,
                   paramVars, genVars, kernelVars>>

\* if (arr_xyz.shape(0) != 3) throw std::length_error
ExecCheckXYZ ==
    /\ AtStmt("xyz")
    /\ \E v \in Dims :
          /\ Reads(shape0, "xyz", v)
          /\ shape0' = [shape0 EXCEPT !["xyz"] = v]
          /\ IF v # 3 THEN Throw ELSE Pass
    /\ UNCHANGED <<prog, L, spherical, shape1, nsize, kernel_calls, kernel_args,
                   paramVars, genVars, kernelVars>>

\* if (coeffs.shape(0) != exponents.shape(0)) throw std::length_error
ExecCheckCoeffs ==
    /\ AtStmt("coeffs")
    /\ \E v \in Lengths, w \in Lengths :
          /\ Reads(shape0, "coeffs", v) /\ Reads(shape0, "exponents", w)
          /\ shape0' = [shape0 EXCEPT !["coeffs"] = v, !["exponents"] = w]
          /\ IF v # w THEN Throw ELSE Pass
    /\ UNCHANGED <<prog, L, spherical, shape1, nsize, kernel_calls, kernel_args,
                   paramVars, genVars, kernelVars>>

\* if (center.shape(0) != 3) throw std::length_error
ExecCheckCenter ==
    /\ AtStmt("center")
    /\ \E v \in Dims :
          /\ Reads(shape0, "center", v)
          /\ shape0' = [shape0 EXCEPT !["center"] = v]
          /\ IF v # 3 THEN Throw ELSE Pass
    /\ UNCHANGED <<prog, L, spherical, shape1, nsize, kernel_calls, kernel_args,
                   paramVars, genVars, kernelVars>>

\* size_t nsize; if (spherical) nsize = 2 * L + 1; else nsize = ((L+2)*(L+1))/2
ExecComputeNsize ==
    /\ AtStmt("nsize")
    /\ nsize' = ToSizeT(IF spherical THEN NsizeSpherical(L) ELSE NsizeCartesian(L))
    /\ wpc' = wpc + 1
    /\ UNCHANGED <<prog, L, spherical, shape0, shape1, thrown, kernel_calls, kernel_args,
                   paramVars, genVars, kernelVars>>

\* if (out.shape(0) != nsize) throw ...; if (out_<cart>.shape(0) != nsize) throw ...
ExecCheckRows ==
    /\ AtStmt("rows")
    /\ \E v \in Rows :
          /\ Reads(shape0, prog[wpc].array, v)
          /\ shape0' = [shape0 EXCEPT ![prog[wpc].array] = v]
          /\ IF ToSizeT(v) # nsize THEN Throw ELSE Pass
    /\ UNCHANGED <<prog, L, spherical, shape1, nsize, kernel_calls, kernel_args,
                   paramVars, genVars, kernelVars>>

\* if (out.shape(1) != arr_xyz.shape(1)) throw ...; the same for out_<cart>
ExecCheckCols ==
    /\ AtStmt("cols")
    /\ \E v \in Points, w \in Points :
          /\ Reads(shape1, prog[wpc].array, v) /\ Reads(shape1, "xyz", w)
          /\ shape1' = [shape1 EXCEPT ![prog[wpc].array] = v, !["xyz"] = w]
          /\ IF v # w THEN Throw ELSE Pass
    /\ UNCHANGED <<prog, L, spherical, shape0, nsize, kernel_calls, kernel_args,
                   paramVars, genVars, kernelVars>>

\* call_name(L, xyz.shape(1), ..., coeffs.shape(0), ..., spherical, out, out_<cart>...)
ExecKernelCall ==
    /\ AtStmt("call")
    /\ \E v \in Points, w \in Lengths :
          /\ Reads(shape1, "xyz", v) /\ Reads(shape0, "coeffs", w)
          /\ shape1' = [shape1 EXCEPT !["xyz"] = v]
          /\ shape0' = [shape0 EXCEPT !["coeffs"] = w]
          /\ kernel_args' = [L |-> L, npoints |-> v, ncoeffs |-> w,
                             spherical |-> spherical, outs |-> prog[wpc].outs]
    /\ kernel_calls' = kernel_calls + 1
    /\ wpc' = wpc + 1
    /\ UNCHANGED <<prog, L, spherical, nsize, thrown, paramVars, genVars, kernelVars>>

\* a wrapper generated by pybind11_func for some tags and some max_L, not yet
\* called
InitWrapper ==
    /\ deriv_indices \in DerivIndices
    /\ max_L \in 0..MaxOrder
    /\ prog = Compile(PybindFuncOps("collocation_wrapper", deriv_indices,
                                    "gg_collocation", max_L), 1)
    /\ wpc = 0 /\ L = 0 /\ spherical = FALSE
    /\ shape0 = [a \in Arrays |-> Unread]
    /\ shape1 = [a \in Arrays |-> Unread]
    /\ nsize = Uninit
    /\ thrown = NoThrow
    /\ kernel_calls = 0
    /\ kernel_args = <<>>
    /\ GenUnused /\ KernelUnused

NextWrapper ==
    \/ WrapperCall
    \/ ExecCheckOrder
    \/ ExecCheckXYZ
    \/ ExecCheckCoeffs
    \/ ExecCheckCenter
    \/ ExecComputeNsize
    \/ ExecCheckRows
    \/ ExecCheckCols
    \/ ExecKernelCall

SpecWrapper == InitWrapper /\ [][NextWrapper]_vars

(* ----------------------- claims on the wrapper ------------------------ *)
\* the wrapper call has ended (by return or by exception)
Done == prog # <<>> /\ wpc = End

\* the output buffers of the wrapper: the primary one, then one per tag
Buffers == <<"out">> \o deriv_indices

\* the checks of the wrapper in the order (1) order, (2) xyz, (3) coeffs,
\* (4) center, (5) rows of each output, (6) columns of each output
CheckList ==
    << <<"order", "order">>, <<"xyz", "xyz">>, <<"coeffs", "coeffs">>,
       <<"center", "center">> >>
    \o [q \in 1..Len(Buffers) |-> <<"rows", Buffers[q]>>]
    \o [q \in 1..Len(Buffers) |-> <<"cols", Buffers[q]>>]

\* the wrapper has read what the check c compares (c is not the order check)
Evaluated(c) ==
    CASE c[1] = "xyz" -> shape0["xyz"] # Unread
      [] c[1] = "coeffs" -> shape0["coeffs"] # Unread \/ shape0["exponents"] # Unread
      [] c[1] = "center" -> shape0["center"] # Unread
      [] c[1] = "rows" -> shape0[c[2]] # Unread
      [] c[1] = "cols" -> shape1[c[2]] # Unread
      [] OTHER -> TRUE

\* the arguments of the call violate the contract the check c guards
Failed(c) ==
    CASE c[1] = "order" -> L > max_L
      [] c[1] = "xyz" -> shape0["xyz"] # 3
      [] c[1] = "coeffs" -> shape0["coeffs"] # shape0["exponents"]
      [] c[1] = "center" -> shape0["center"] # 3
      [] c[1] = "rows" -> shape0[c[2]] # nsize
      [] c[1] = "cols" -> shape1[c[2]] # shape1["xyz"]
      [] OTHER -> FALSE

\* the wrapper evaluated the check c and the arguments satisfy its contract
Passed(c) == Evaluated(c) /\ ~Failed(c)

\* the exception the check c raises
ErrorOf(c) ==
    [type |-> IF c[1] = "order" THEN "invalid_argument" ELSE "length_error", check |-> c]

\* C2: the opaque kernel is invoked exactly once when every check passes and
\* never when a check fails: the error is raised before the kernel call.  With
\* xyz of shape (3, .), coeffs of length 4 and exponents of length 3 a length
\* error is raised and the kernel is not called.
C2_KernelOnce ==
    /\ kernel_calls \in {0, 1}
    /\ ~Done => kernel_calls = 0
    /\ Done =>
          /\ kernel_calls = 1 <=> \A q \in 1..Len(CheckList) : Passed(CheckList[q])
          /\ kernel_calls = 0 <=> \E q \in 1..Len(CheckList) : thrown = ErrorOf(CheckList[q])
          /\ kernel_calls = 1 <=> thrown = NoThrow
          /\ kernel_calls = 1 => kernel_args.outs = Buffers
    /\ (Done /\ L <= max_L /\ shape0["xyz"] = 3
             /\ shape0["coeffs"] = 4 /\ shape0["exponents"] = 3) =>
          /\ thrown = ErrorOf(<<"coeffs", "coeffs">>)
          /\ kernel_calls = 0

\* a call with two derivative outputs passed every check and called the kernel
C2_Witness ==
    /\ Done /\ kernel_calls = 1 /\ thrown = NoThrow
    /\ Len(deriv_indices) = 2 /\ L = 2 /\ spherical

\* C3: the error raised is that of the first failing check in the order of
\* CheckList: every check before it was evaluated and passed, it failed, and
\* no check after it was evaluated.  A call with L > max_L raises the
\* unsupported-order error without reading the shape of any buffer.
C3_FirstFailing ==
    /\ (Done /\ thrown # NoThrow) =>
          \E q \in 1..Len(CheckList) :
              /\ thrown = ErrorOf(CheckList[q])
              /\ Failed(CheckList[q])
              /\ \A r \in 1..(q - 1) : Passed(CheckList[r])
              /\ \A r \in (q + 1)..Len(CheckList) : ~Evaluated(CheckList[r])
    /\ (Done /\ L > max_L) =>
          /\ thrown = ErrorOf(<<"order", "order">>)
          /\ \A a \in Arrays : shape0[a] = Unread /\ shape1[a] = Unread

\* the columns of the second derivative output differ from those of xyz: the
\* last check of the list is the one that fails
C3_Witness ==
    /\ Done /\ Len(deriv_indices) = 2
    /\ thrown = ErrorOf(<<"cols", deriv_indices[2]>>)
    /\ shape1[deriv_indices[1]] = shape1["xyz"]

\* the row count the wrapper expects for order L
ExpectedRows == IF spherical THEN 2 * L + 1 ELSE ((L + 2) * (L + 1)) \div 2

\* C4: for L in 0..max_L the expected row count nsize is 2*L + 1 when spherical
\* and ((L + 2)*(L + 1))/2 otherwise (5 and 6 for L = 2), and a call in which
\* the primary output or a derivative output has another row count ends with a
\* length error.
C4_RowCount ==
    (L \in 0..max_L) =>
        /\ nsize # Uninit => nsize = ExpectedRows
        /\ (nsize # Uninit /\ L = 2) => nsize = IF spherical THEN 5 ELSE 6
        /\ (Done /\ \E q \in 1..Len(Buffers) :
                       shape0[Buffers[q]] \notin {Unread, ExpectedRows}) =>
              thrown.type = "length_error"
        /\ (Done /\ thrown = NoThrow) =>
              \A q \in 1..Len(Buffers) : shape0[Buffers[q]] = ExpectedRows

\* L = 2, Cartesian: the primary output has the 6 rows expected, the first
\* derivative output has 5 and its row check raises the length error
C4_Witness ==
    /\ Done /\ L = 2 /\ ~spherical /\ nsize = 6
    /\ Len(deriv_indices) >= 1
    /\ shape0["out"] = 6
    /\ shape0[deriv_indices[1]] = 5
    /\ thrown = ErrorOf(<<"rows", deriv_indices[1]>>)

\* C10: whenever the opaque kernel is invoked, the order L passed to it
\* satisfies 0 <= L <= max_L.
C10_OrderInRange ==
    kernel_calls > 0 => (0 <= kernel_args.L /\ kernel_args.L <= max_L)

====
